---- MODULE Spec2Model ----
\* A model of the HAR-RV research pipeline:
\*   data_loading.py  get_peers / build_peer_mapping (point-in-time peer selection),
\*                    load_realized_volatility_from_wrds / create_sample_realized_volatility_data
\*   forecasting.py   rolling_forecast (walk-forward retraining loop)
\*   evaluation.py    evaluate_forecast (skill against the naive baseline)
\*   main.py          main (the order in which the above are called)
\* Dates are day numbers, so that "target_date - 45 days" is integer subtraction.
EXTENDS Integers, Sequences, FiniteSets

VARIABLES
    ipo_universe,   \* the entity table load_and_prepare_data returned
    peer_call,      \* the call into the peer selector and what it did
    pc,             \* where main stands in steps 4 to 5 of the pipeline
    source,         \* which data source produced final_df
    peer_avg,       \* the unlagged peer aggregate the data source built
    final_df,       \* the frame handed to rolling_forecast
    window_size,    \* rolling_forecast's window_size
    data,           \* rolling_forecast's aligned frame
    t,              \* the walk-forward loop's step (a 0-based row position)
    predictions,    \* rolling_forecast's predictions list
    observations,   \* rolling_forecast's observations list
    results,        \* what rolling_forecast returned
    results_df,     \* the frame handed to evaluate_forecast
    naive_forecast, \* evaluate_forecast's naive_forecast column
    metrics         \* what evaluate_forecast did

peer_vars == <<ipo_universe, peer_call>>
pipe_vars == <<pc, source, peer_avg, final_df, window_size, data, t, predictions,
               observations, results>>
eval_vars == <<results_df, naive_forecast, metrics>>
vars == <<peer_vars, pipe_vars, eval_vars>>

-----------------------------------------------------------------------------
\* Bounds of the model.

MaxUniverse == 3        \* rows of the universe handed to get_peers
MaxPeers == 2           \* largest n_peers asked for
MaxMapUniverse == 2     \* rows of the universe handed to build_peer_mapping
MaxTargets == 2         \* longest target array handed to build_peer_mapping
MaxDates == 6           \* days in the date range of the data sources
MaxWindow == 2          \* largest window_size
MaxRecords == 3         \* longest forecast frame handed to evaluate_forecast

-----------------------------------------------------------------------------
\* Values.

\* pandas' missing date: pd.to_datetime(..., errors='coerce') leaves NaT.
NaT == 0 - 1

\* The reporting lag of get_peers, pd.Timedelta(days=45).
ReportingLagDays == 45

\* The default n_peers of build_peer_mapping.
DefaultPeers == 10

\* numpy's missing number: shift(1) leaves NaN in the first position. The
\* numbers of the model are naturals, so -1 is free to stand for it.
NaN == 0 - 1

Abs(x) == IF x < 0 THEN 0 - x ELSE x

\* The parts of the state a specification of another component leaves alone.
PeersIdle ==
    /\ ipo_universe = <<>>
    /\ peer_call = [op |-> "none", targets |-> <<>>, n_peers |-> 0,
                    out |-> [raised |-> "none", value |-> <<>>]]

PipeIdle ==
    /\ pc = "idle"
    /\ source = "none"
    /\ peer_avg = <<>>
    /\ final_df = <<>>
    /\ window_size = 0
    /\ data = <<>>
    /\ t = 0
    /\ predictions = <<>>
    /\ observations = <<>>
    /\ results = <<>>

\* A root mean squared error, sqrt(sse / n), kept as the pair it is the root of.
Rmse(sse, n) == [sse |-> sse, n |-> n]

\* A skill score: "nan", "-inf", or the finite 1 - sqrt(model_sse / naive_sse).
Score(kind, model_sse, naive_sse) ==
    [kind |-> kind, model_sse |-> model_sse, naive_sse |-> naive_sse]

NoMetrics(status) ==
    [raised |-> status, model_rmse |-> Rmse(0, 0), naive_rmse |-> Rmse(0, 0),
     skill_score |-> Score("none", 0, 0)]

EvalIdle ==
    /\ results_df = <<>>
    /\ naive_forecast = <<>>
    /\ metrics = NoMetrics("idle")

\* A comparison of two datetimes in pandas: any comparison with NaT is False.
DateLt(a, b) == a # NaT /\ b # NaT /\ a < b

\* target_date - pd.Timedelta(days=45); NaT stays NaT.
MinusDays(d, k) == IF d = NaT THEN NaT ELSE d - k

Tickers == <<"AAA", "BBB", "CCC", "DDD", "EEE">>
MissingTicker == "ZZZ"

Sectors == {45, 20}
IpoDates == {100, 101}
ReportDates == {NaT, 55, 56}
Valuations == {90, 110}

\* The fundamentals of one row. The report date of a row of the latest listing
\* date is read by no query (such a row precedes no target), so one value stands
\* for it.
Fundamentals ==
    {f \in [gsector : Sectors, ipodate : IpoDates, rdq : ReportDates, mkvaltq : Valuations] :
        f.ipodate = 101 => f.rdq = 55}

\* load_and_prepare_data: the rows with an IPO date; row i carries ticker i.
Universe(f) ==
    [i \in DOMAIN f |->
        [tic |-> Tickers[i], gsector |-> f[i].gsector, ipodate |-> f[i].ipodate,
         rdq |-> f[i].rdq, mkvaltq |-> f[i].mkvaltq]]

-----------------------------------------------------------------------------
\* get_peers.

\* ipo_universe[ipo_universe['tic'] == target_ticker]
TargetRows(universe, target_ticker) ==
    SelectSeq(universe, LAMBDA r : r.tic = target_ticker)

\* The same-sector, earlier-listed, other-ticker rows (lines 50-54).
PotentialPeersLeq(universe, target, target_ticker) ==
    SelectSeq(universe, LAMBDA r :
        /\ r.gsector = target.gsector
        /\ ~DateLt(target.ipodate, r.ipodate) /\ r.ipodate # NaT
        /\ r.tic # target_ticker)

PotentialPeers(universe, target, target_ticker) ==
    SelectSeq(universe, LAMBDA r :
        /\ r.gsector = target.gsector
        /\ DateLt(r.ipodate, target.ipodate)
        /\ r.tic # target_ticker)

\* The 45-day reporting lag filter (line 57).
ReportingLag(rows, target_date) ==
    SelectSeq(rows, LAMBDA r : DateLt(r.rdq, MinusDays(target_date, ReportingLagDays)))

\* potential_peers['dist'] (line 63)
Dist(r, target_val) == Abs(r.mkvaltq - target_val)

Perms(n) == {p \in [1..n -> 1..n] : \A i, j \in 1..n : p[i] = p[j] => i = j}

\* sort_values('dist') with pandas' default kind='quicksort', which is not a
\* stable sort: the rows in ascending distance, rows of equal distance in any
\* order. The set of the orders a build of the sort can produce.
SortValues(rows, target_val) ==
    {[i \in 1..Len(rows) |-> rows[p[i]]] :
        p \in {q \in Perms(Len(rows)) :
                 \A i, j \in 1..Len(rows) :
                    i < j => Dist(rows[q[i]], target_val) <= Dist(rows[q[j]], target_val)}}

\* ['tic'].head(n_peers).tolist()
HeadTics(rows, n) ==
    [i \in 1..(IF n < Len(rows) THEN n ELSE Len(rows)) |-> rows[i].tic]

Raised(e) == [raised |-> e, value |-> <<>>]
Returned(v) == [raised |-> "none", value |-> v]

\* What get_peers does once the target row is resolved (lines 45-66).
PeersOfFirstRow(universe, target_ticker, n_peers) ==
    LET target == universe[1]
        surviving == ReportingLag(PotentialPeers(universe, target, target_ticker),
                                  target.ipodate)
    IN  IF Len(surviving) = 0
        THEN {Returned(<<>>)}
        ELSE {Returned(HeadTics(s, n_peers)) : s \in SortValues(surviving, target.mkvaltq)}

PeersOfTarget(universe, target_ticker, n_peers) ==
    LET target == TargetRows(universe, target_ticker)[1]
        surviving == ReportingLag(PotentialPeers(universe, target, target_ticker),
                                  target.ipodate)
    IN  IF Len(surviving) = 0
        THEN {Returned(<<>>)}
        ELSE {Returned(HeadTics(s, n_peers)) : s \in SortValues(surviving, target.mkvaltq)}

\* get_peers: the outcomes of one call. .iloc[0] of an empty selection raises
\* IndexError (line 44), which is the call's "target not found" failure.
GetPeersNoRaise(universe, target_ticker, n_peers) ==
    IF Len(TargetRows(universe, target_ticker)) = 0
    THEN PeersOfFirstRow(universe, target_ticker, n_peers)
    ELSE PeersOfTarget(universe, target_ticker, n_peers)

GetPeersRaiseOnEmpty(universe, target_ticker, n_peers) ==
    IF Len(TargetRows(universe, target_ticker)) = 0
    THEN {Raised("IndexError")}
    ELSE {IF Len(o.value) = 0 THEN Raised("IndexError") ELSE o :
            o \in PeersOfTarget(universe, target_ticker, n_peers)}

get_peers(universe, target_ticker, n_peers) ==
    IF Len(TargetRows(universe, target_ticker)) = 0
    THEN {Raised("IndexError")}
    ELSE PeersOfTarget(universe, target_ticker, n_peers)

\* build_peer_mapping: {t: get_peers(ipo_universe, t, n_peers) for t in targets}.
\* The comprehension evaluates the targets in order; an exception of any call
\* leaves the comprehension, and no mapping is returned. The mapping is the
\* sequence of (target, peers) items; a repeated target keeps its first place
\* and its last value, as a dict does.
PutItem(items, key, peers) ==
    IF \E i \in 1..Len(items) : items[i].target = key
    THEN [i \in 1..Len(items) |->
            IF items[i].target = key THEN [target |-> key, peers |-> peers] ELSE items[i]]
    ELSE Append(items, [target |-> key, peers |-> peers])

RECURSIVE MapFrom(_, _, _, _, _)
MapFrom(universe, targets, n_peers, k, items) ==
    IF k > Len(targets)
    THEN {Returned(items)}
    ELSE UNION {IF o.raised # "none"
                THEN {Raised(o.raised)}
                ELSE MapFrom(universe, targets, n_peers, k + 1,
                             PutItem(items, targets[k], o.value)) :
                o \in get_peers(universe, targets[k], n_peers)}

build_peer_mapping(universe, targets, n_peers) ==
    MapFrom(universe, targets, n_peers, 1, <<>>)

-----------------------------------------------------------------------------
\* The peer selector as a state machine: a universe, and one call into it (the
\* selector is a pure function of its arguments, and main calls it once).

NoCall == [op |-> "none", targets |-> <<>>, n_peers |-> 0, out |-> Returned(<<>>)]

TargetNames(universe) == {universe[i].tic : i \in DOMAIN universe} \cup {MissingTicker}

InitPeers ==
    /\ \E f \in [1..MaxUniverse -> Fundamentals] : ipo_universe = Universe(f)
    /\ peer_call = NoCall
    /\ PipeIdle
    /\ EvalIdle

GetPeers ==
    /\ peer_call.op = "none"
    /\ \E target_ticker \in TargetNames(ipo_universe), n_peers \in 1..MaxPeers :
        \E o \in get_peers(ipo_universe, target_ticker, n_peers) :
            /\ peer_call' = [op |-> "get_peers", targets |-> <<target_ticker>>,
                             n_peers |-> n_peers, out |-> o]
            /\ UNCHANGED <<ipo_universe, pipe_vars, eval_vars>>

NextPeers == GetPeers

SpecPeers == InitPeers /\ [][NextPeers]_vars

\* build_peer_mapping, over a smaller universe and with the default n_peers.
TargetArrays(universe) ==
    UNION {[1..k -> TargetNames(universe)] : k \in 0..MaxTargets}

InitMap ==
    /\ \E f \in [1..MaxMapUniverse -> Fundamentals] : ipo_universe = Universe(f)
    /\ peer_call = NoCall
    /\ PipeIdle
    /\ EvalIdle

GetPeersDefault ==
    /\ peer_call.op = "none"
    /\ \E target_ticker \in TargetNames(ipo_universe) :
        \E o \in get_peers(ipo_universe, target_ticker, DefaultPeers) :
            /\ peer_call' = [op |-> "get_peers", targets |-> <<target_ticker>>,
                             n_peers |-> DefaultPeers, out |-> o]
            /\ UNCHANGED <<ipo_universe, pipe_vars, eval_vars>>

BuildPeerMapping ==
    /\ peer_call.op = "none"
    /\ \E targets \in TargetArrays(ipo_universe) :
        \E o \in build_peer_mapping(ipo_universe, targets, DefaultPeers) :
            /\ peer_call' = [op |-> "build_peer_mapping", targets |-> targets,
                             n_peers |-> DefaultPeers, out |-> o]
            /\ UNCHANGED <<ipo_universe, pipe_vars, eval_vars>>

NextMap == GetPeersDefault \/ BuildPeerMapping

SpecMap == InitMap /\ [][NextMap]_vars

-----------------------------------------------------------------------------
\* Series and frames. A series is a sequence of [date, val] in date order; a
\* frame is a sequence of rows in date order, each row carrying its index label
\* (date) and its columns.

RECURSIVE SortedDates(_)
SortedDates(S) ==
    IF S = {} THEN <<>>
    ELSE LET m == CHOOSE x \in S : \A y \in S : x <= y
         IN  <<m>> \o SortedDates(S \ {m})

Dates(series) == {series[i].date : i \in DOMAIN series}

\* series[date], NaN where the series has no such label (the alignment of the
\* DataFrame constructor).
At(series, d) ==
    IF d \in Dates(series)
    THEN series[CHOOSE i \in DOMAIN series : series[i].date = d].val
    ELSE NaN

\* Series.shift(1): each label takes the value of the position before it.
ShiftNone(series) == series

Shift(series) ==
    [i \in DOMAIN series |->
        [date |-> series[i].date, val |-> IF i = 1 THEN NaN ELSE series[i - 1].val]]

\* pd.to_numeric(errors='coerce'): a number stays, anything else becomes NaN.
ToNumeric(v) == IF v \in Int THEN v ELSE NaN

\* The tickers of the live query and the sign-carrying daily return CRSP holds
\* for each on each day; every (ticker, day) has its own magnitude.
TargetTicker == "TGT"
PeerTickers == <<"PR1", "PR2">>
AllTickers == <<TargetTicker>> \o PeerTickers

Ret(ticker, d) ==
    LET mag == IF ticker = TargetTicker THEN d
               ELSE IF ticker = PeerTickers[1] THEN 100 + 2 * d
               ELSE 300 + 2 * d
    IN  IF d % 2 = 0 THEN mag ELSE 0 - mag

\* rv_data[ticker] = data.set_index('date')['ret'].abs() over the trading days
\* lo..hi the query returned (lines 155-160).
RvSeries(ticker, lo, hi) ==
    [i \in 1..(hi - lo + 1) |-> [date |-> lo + i - 1, val |-> Abs(Ret(ticker, lo + i - 1))]]

\* The day ranges a query can return, and "no data" (the ticker is left out of
\* rv_data, lines 140-142 and 161-164).
NoData == <<0, 0>>
DayRanges == {r \in (1..MaxDates) \X (1..MaxDates) : r[1] <= r[2]}
Fetches == [1..Len(AllTickers) -> DayRanges \cup {NoData}]

\* rv_data: the tickers that have a series.
InRvData(fetched, k) == fetched[k] # NoData
RvOf(fetched, k) == RvSeries(AllTickers[k], fetched[k][1], fetched[k][2])

\* pd.concat(peer_series_list, axis=1).mean(axis=1): over the union of the
\* peers' days, the mean of the values present (skipna). The peers' values are
\* even and there are at most two peers, so the mean is a whole number.
PeerAverage(fetched) ==
    LET peers == {k \in 2..Len(AllTickers) : InRvData(fetched, k)}
        days == UNION {Dates(RvOf(fetched, k)) : k \in peers}
        sorted == SortedDates(days)
        have(d) == {k \in peers : d \in Dates(RvOf(fetched, k))}
        RECURSIVE sum(_, _)
        sum(K, d) == IF K = {} THEN 0
                     ELSE LET k == CHOOSE x \in K : TRUE
                          IN  At(RvOf(fetched, k), d) + sum(K \ {k}, d)
    IN  [i \in DOMAIN sorted |->
            [date |-> sorted[i],
             val |-> sum(have(sorted[i]), sorted[i]) \div Cardinality(have(sorted[i]))]]

\* DataFrame.dropna() of a frame of the two columns Actual, Peer_Prior.
DropNaFinal(rows) ==
    SelectSeq(rows, LAMBDA r : r.Actual # NaN /\ r.Peer_Prior # NaN)

\* pd.DataFrame({'Actual': target_series, 'Peer_Prior': lagged}).dropna()
\* (lines 186-189): the union of the two indexes, then the complete rows.
LiveFrameFrom(target_series, lagged) ==
    LET sorted == SortedDates(Dates(target_series) \cup Dates(lagged))
    IN  DropNaFinal([i \in DOMAIN sorted |->
            [date |-> sorted[i],
             Actual |-> At(target_series, sorted[i]),
             Peer_Prior |-> At(lagged, sorted[i])]])

LiveFrameUnlagged(target_series, peer_average) ==
    LiveFrameFrom(target_series, ShiftNone(peer_average))

LiveFrame(target_series, peer_average) ==
    LiveFrameFrom(target_series, Shift(peer_average))

\* create_sample_realized_volatility_data. The draws are multiples of Scale so
\* that the smoothing 0.7 * x[i-1] + 0.3 * x[i] stays a whole number.
Scale == 10 ^ MaxDates
TargetDraws == {1 * Scale, 2 * Scale}
PeerDraws == {3 * Scale, 5 * Scale}

\* for i in range(2, len(x)): x[i] = 0.7 * x[i-1] + 0.3 * x[i] (lines 216-218);
\* i is the 1-based position, so the loop starts at 3.
RECURSIVE SmoothFrom(_, _)
SmoothFrom(x, i) ==
    IF i > Len(x) THEN x
    ELSE SmoothFrom([x EXCEPT ![i] = (7 * x[i - 1] + 3 * x[i]) \div 10], i + 1)

Smooth(x) == SmoothFrom(x, 3)

\* np.roll(x, 1): a circular shift, the last value wraps to the front.
Roll(x) == [i \in DOMAIN x |-> IF i = 1 THEN x[Len(x)] ELSE x[i - 1]]

\* final_df.iloc[1:].dropna() (line 226)
SampleFrame(target_data, peer_data) ==
    DropNaFinal(Tail([i \in DOMAIN target_data |->
        [date |-> i, Actual |-> target_data[i], Peer_Prior |-> Roll(peer_data)[i]]]))

-----------------------------------------------------------------------------
\* rolling_forecast.

\* data.iloc[a:b]: the rows at the 0-based positions a..b-1 that exist.
Clip(i, n) == IF i < 0 THEN 0 ELSE IF i > n THEN n ELSE i

IlocThrough(frame, a, b) == SubSeq(frame, Clip(a, Len(frame)) + 1, Clip(b + 1, Len(frame)))

Iloc(frame, a, b) == SubSeq(frame, Clip(a, Len(frame)) + 1, Clip(b, Len(frame)))

\* The aligned frame (lines 18-25): the three columns on the index of the two
\* input series (both columns of final_df), then the complete rows.
AlignedFrame(frame) ==
    LET actual == [i \in DOMAIN frame |-> [date |-> frame[i].date, val |-> frame[i].Actual]]
        peer == [i \in DOMAIN frame |-> [date |-> frame[i].date, val |-> frame[i].Peer_Prior]]
    IN  SelectSeq(
            [i \in DOMAIN frame |->
                [date |-> frame[i].date,
                 Actual_RV |-> ToNumeric(actual[i].val),
                 Lag_RV |-> ToNumeric(Shift(actual)[i].val),
                 Peer_Prior |-> ToNumeric(peer[i].val)]],
            LAMBDA r : r.Actual_RV # NaN /\ r.Lag_RV # NaN /\ r.Peer_Prior # NaN)

\* sm.add_constant(X_train), has_constant='skip' by default: when a column of
\* the window is one nonzero value throughout, no intercept column is added.
HasConstantColumn(train) ==
    \/ /\ \A i, j \in DOMAIN train : train[i].Lag_RV = train[j].Lag_RV
       /\ \E i \in DOMAIN train : train[i].Lag_RV # 0
    \/ /\ \A i, j \in DOMAIN train : train[i].Peer_Prior = train[j].Peer_Prior
       /\ \E i \in DOMAIN train : train[i].Peer_Prior # 0

\* sm.OLS(y_train, X_train).fit() (lines 40-43): the fit is determined by the
\* window's index, regressors and dependent values, and by nothing else.
Fit(train) ==
    [index |-> [i \in DOMAIN train |-> train[i].date],
     X |-> [i \in DOMAIN train |->
              IF HasConstantColumn(train)
              THEN <<train[i].Lag_RV, train[i].Peer_Prior>>
              ELSE <<1, train[i].Lag_RV, train[i].Peer_Prior>>],
     y |-> [i \in DOMAIN train |-> train[i].Actual_RV]]

\* sm.add_constant(X_test, has_constant='add') (lines 46-47)
TestRegressors(test) == <<1, test[1].Lag_RV, test[1].Peer_Prior>>

\* model.predict(X_test) (line 48): the value the fit gives at the regressors;
\* the dot product fails when the fit has no intercept column.
Predictable(fit, x) == Len(fit.X) > 0 /\ Len(fit.X[1]) = Len(x)
Predict(fit, x) == [fit |-> fit, x |-> x]

\* The returned frame (lines 53-56): the two lists on data.index[window_size:].
ResultFrame(frame, w, obs, preds) ==
    LET index == Iloc(frame, w, Len(frame))
    IN  [k \in DOMAIN index |->
            [date |-> index[k].date, Actual |-> obs[k], Forecast |-> preds[k]]]

-----------------------------------------------------------------------------
\* main, steps 4 and 5: a data source, then rolling_forecast.

InitPipe ==
    /\ PeersIdle
    /\ EvalIdle
    /\ pc = "start"
    /\ source = "none"
    /\ peer_avg = <<>>
    /\ final_df = <<>>
    /\ window_size = 0
    /\ data = <<>>
    /\ t = 0
    /\ predictions = <<>>
    /\ observations = <<>>
    /\ results = <<>>

\* load_realized_volatility_from_wrds: None when the connection fails, when the
\* target has no series or when no peer has one; the frame otherwise.
LoadLive ==
    /\ pc = "start"
    /\ \E connected \in BOOLEAN, fetched \in Fetches :
        LET have == {k \in DOMAIN fetched : InRvData(fetched, k)}
        IN  IF connected /\ 1 \in have /\ Cardinality(have) > 1
            THEN /\ peer_avg' = PeerAverage(fetched)
                 /\ final_df' = LiveFrame(RvOf(fetched, 1), PeerAverage(fetched))
                 /\ source' = "wrds"
                 /\ pc' = "loaded"
            ELSE /\ pc' = "fallback"
                 /\ UNCHANGED <<peer_avg, final_df, source>>
    /\ UNCHANGED <<window_size, data, t, predictions, observations, results>>
    /\ UNCHANGED <<peer_vars, eval_vars>>

\* create_sample_realized_volatility_data, main's fallback.
CreateSample ==
    /\ pc = "fallback"
    /\ \E n \in 1..MaxDates :
        \E target_draw \in [1..n -> TargetDraws], peer_draw \in [1..n -> PeerDraws] :
            /\ peer_avg' = [i \in 1..n |-> [date |-> i, val |-> Smooth(peer_draw)[i]]]
            /\ final_df' = SampleFrame(Smooth(target_draw), Smooth(peer_draw))
    /\ source' = "sample"
    /\ pc' = "loaded"
    /\ UNCHANGED <<window_size, data, t, predictions, observations, results>>
    /\ UNCHANGED <<peer_vars, eval_vars>>

\* rolling_forecast up to the loop (lines 18-32).
Align ==
    /\ pc = "loaded"
    /\ \E w \in 1..MaxWindow : window_size' = w /\ t' = w
    /\ data' = AlignedFrame(final_df)
    /\ predictions' = <<>>
    /\ observations' = <<>>
    /\ pc' = "loop"
    /\ UNCHANGED <<source, peer_avg, final_df, results>>
    /\ UNCHANGED <<peer_vars, eval_vars>>

\* One pass of the walk-forward loop (lines 35-51).
Step ==
    /\ pc = "loop"
    /\ t < Len(data)
    /\ LET train == Iloc(data, t - window_size, t)
           test == Iloc(data, t, t + 1)
           model == Fit(train)
       IN  IF Predictable(model, TestRegressors(test))
           THEN /\ predictions' = Append(predictions, Predict(model, TestRegressors(test)))
                /\ observations' = Append(observations, test[1].Actual_RV)
                /\ t' = t + 1
                /\ pc' = "loop"
           ELSE /\ pc' = "ValueError"
                /\ UNCHANGED <<predictions, observations, t>>
    /\ UNCHANGED <<source, peer_avg, final_df, window_size, data, results>>
    /\ UNCHANGED <<peer_vars, eval_vars>>

\* The loop is over (lines 53-56).
Return ==
    /\ pc = "loop"
    /\ t >= Len(data)
    /\ results' = ResultFrame(data, window_size, observations, predictions)
    /\ pc' = "done"
    /\ UNCHANGED <<source, peer_avg, final_df, window_size, data, t, predictions,
                   observations>>
    /\ UNCHANGED <<peer_vars, eval_vars>>

Next == LoadLive \/ CreateSample \/ Align \/ Step \/ Return

Spec == InitPipe /\ [][Next]_vars

-----------------------------------------------------------------------------
\* evaluate_forecast.

\* The columns of a results frame as plain sequences.
ActualOf(frame) == [i \in DOMAIN frame |-> frame[i].Actual]
ForecastOf(frame) == [i \in DOMAIN frame |-> frame[i].Forecast]

\* sklearn's mean_squared_error refuses an empty input and an input holding NaN.
MseRaises(y_true, y_pred) ==
    \/ Len(y_true) = 0
    \/ \E i \in DOMAIN y_true : y_true[i] = NaN \/ y_pred[i] = NaN

RECURSIVE SumSq(_, _, _)
SumSq(y_true, y_pred, i) ==
    IF i > Len(y_true) THEN 0
    ELSE (y_true[i] - y_pred[i]) * (y_true[i] - y_pred[i]) + SumSq(y_true, y_pred, i + 1)

\* np.sqrt(mean_squared_error(y_true, y_pred)) (lines 15 and 19)
RootMse(y_true, y_pred) == Rmse(SumSq(y_true, y_pred, 1), Len(y_true))

\* Series.shift(1) of a plain column.
ShiftCol(col) == [i \in DOMAIN col |-> IF i = 1 THEN NaN ELSE col[i - 1]]

\* fillna(method='bfill'): a missing value takes the next value present after
\* it, and stays missing when there is none.
BFill(col) ==
    [i \in DOMAIN col |->
        IF col[i] # NaN THEN col[i]
        ELSE IF \E j \in DOMAIN col : j > i /\ col[j] # NaN
             THEN col[CHOOSE j \in DOMAIN col :
                        /\ j > i /\ col[j] # NaN
                        /\ \A k \in DOMAIN col : (k > i /\ col[k] # NaN) => j <= k]
             ELSE NaN]

\* results_df['Actual'].shift(1).fillna(method='bfill') (line 18)
NaiveForecast(actual) == BFill(ShiftCol(actual))

\* (naive_rmse - rmse) / naive_rmse on numpy floats (line 21): a zero divisor
\* raises nothing; 0/0 is nan and a negative numerator over 0 is -inf.
Improvement(naive_rmse, rmse) ==
    IF naive_rmse.sse = 0
    THEN IF rmse.sse = 0
         THEN Score("nan", rmse.sse, naive_rmse.sse)
         ELSE Score("-inf", rmse.sse, naive_rmse.sse)
    ELSE Score("finite", rmse.sse, naive_rmse.sse)

\* The frames rolling_forecast can hand over, the empty one included.
ActualValues == {1, 2}
ForecastValues == {1, 2}
ResultFrames ==
    UNION {[1..n -> [Actual : ActualValues, Forecast : ForecastValues]] : n \in 0..MaxRecords}

InitEval ==
    /\ PeersIdle
    /\ PipeIdle
    /\ results_df \in ResultFrames
    /\ naive_forecast = <<>>
    /\ metrics = NoMetrics("pending")

\* evaluate_forecast (lines 15-33).
Evaluate ==
    /\ metrics.raised = "pending"
    /\ LET actual == ActualOf(results_df)
           forecast == ForecastOf(results_df)
           naive == NaiveForecast(actual)
       IN  IF MseRaises(actual, forecast)
           THEN /\ metrics' = NoMetrics("ValueError")
                /\ UNCHANGED naive_forecast
           ELSE /\ naive_forecast' = naive
                /\ IF MseRaises(actual, naive)
                   THEN metrics' = NoMetrics("ValueError")
                   ELSE metrics' =
                        [raised |-> "none",
                         model_rmse |-> RootMse(actual, forecast),
                         naive_rmse |-> RootMse(actual, naive),
                         skill_score |-> Improvement(RootMse(actual, naive),
                                                     RootMse(actual, forecast))]
    /\ UNCHANGED <<results_df, peer_vars, pipe_vars>>

NextEval == Evaluate

SpecEval == InitEval /\ [][NextEval]_vars

-----------------------------------------------------------------------------
\* Properties of the peer selector.

\* The row of the universe a ticker names (tickers are distinct in the model).
RowOf(tic) == ipo_universe[CHOOSE i \in DOMAIN ipo_universe : ipo_universe[i].tic = tic]
IndexOf(tic) == CHOOSE i \in DOMAIN ipo_universe : ipo_universe[i].tic = tic
InUniverse(tic) == \E i \in DOMAIN ipo_universe : ipo_universe[i].tic = tic

\* Row r is an eligible peer of target row T: each of the four constraints.
Eligible(r, T) ==
    /\ r.gsector = T.gsector
    /\ r.tic # T.tic
    /\ r.ipodate # NaT /\ r.ipodate < T.ipodate
    /\ r.rdq # NaT /\ r.rdq < T.ipodate - 45

GotPeers ==
    /\ peer_call.op = "get_peers"
    /\ peer_call.out.raised = "none"

CallTarget == peer_call.targets[1]

\* C1: every peer get_peers returns is of the target's sector, is not the
\* target, was listed strictly before the target and reported strictly earlier
\* than 45 days before the target's listing.
C1_PeersAreValid ==
    GotPeers =>
        \A k \in DOMAIN peer_call.out.value :
            /\ InUniverse(peer_call.out.value[k])
            /\ Eligible(RowOf(peer_call.out.value[k]), RowOf(CallTarget))

\* A call that returned a peer while the universe held a row that breaks one
\* constraint only: a same-day listing of the target's sector, or an earlier
\* listing that reported exactly 45 days before the target's listing.
C1_Witness ==
    /\ GotPeers
    /\ Len(peer_call.out.value) > 0
    /\ \E i \in DOMAIN ipo_universe :
        /\ ipo_universe[i].gsector = RowOf(CallTarget).gsector
        /\ ipo_universe[i].tic # CallTarget
        /\ \/ /\ ipo_universe[i].ipodate = RowOf(CallTarget).ipodate
              /\ ipo_universe[i].rdq # NaT
              /\ ipo_universe[i].rdq < RowOf(CallTarget).ipodate - 45
           \/ /\ ipo_universe[i].ipodate < RowOf(CallTarget).ipodate
              /\ ipo_universe[i].rdq = RowOf(CallTarget).ipodate - 45

\* C8: when the target exists and no row passes the sector, listing-date and
\* reporting-lag filters, get_peers returns the empty list and raises nothing.
C8_EmptyPeersNoError ==
    (/\ peer_call.op = "get_peers"
     /\ InUniverse(CallTarget)
     /\ \A i \in DOMAIN ipo_universe : ~Eligible(ipo_universe[i], RowOf(CallTarget)))
    => peer_call.out = Returned(<<>>)

\* A call for a target whose only earlier same-sector rows have a missing or a
\* too-recent report date.
C8_Witness ==
    /\ peer_call.op = "get_peers"
    /\ InUniverse(CallTarget)
    /\ peer_call.out = Returned(<<>>)
    /\ \E i, j \in DOMAIN ipo_universe :
        /\ ipo_universe[i].gsector = RowOf(CallTarget).gsector
        /\ ipo_universe[i].ipodate < RowOf(CallTarget).ipodate
        /\ ipo_universe[i].rdq = NaT
        /\ ipo_universe[j].gsector = RowOf(CallTarget).gsector
        /\ ipo_universe[j].ipodate < RowOf(CallTarget).ipodate
        /\ ipo_universe[j].rdq # NaT

\* The surviving candidates of the call, as row indices.
Survivors ==
    {i \in DOMAIN ipo_universe : Eligible(ipo_universe[i], RowOf(CallTarget))}

DistOf(tic) == Abs(RowOf(tic).mkvaltq - RowOf(CallTarget).mkvaltq)

\* C5: the result is the survivors in ascending distance, equal distances in
\* universe order, cut to the first n_peers.
C5_StableDistanceOrder ==
    GotPeers =>
        LET r == peer_call.out.value
            n == Cardinality(Survivors)
        IN  /\ Len(r) = IF peer_call.n_peers < n THEN peer_call.n_peers ELSE n
            /\ \A k \in DOMAIN r : IndexOf(r[k]) \in Survivors
            /\ \A k, l \in DOMAIN r :
                k < l => \/ DistOf(r[k]) < DistOf(r[l])
                         \/ DistOf(r[k]) = DistOf(r[l]) /\ IndexOf(r[k]) < IndexOf(r[l])
            /\ \A k \in DOMAIN r : \A i \in Survivors :
                (\A l \in DOMAIN r : IndexOf(r[l]) # i) =>
                    \/ DistOf(r[k]) < DistOf(ipo_universe[i].tic)
                    \/ DistOf(r[k]) = DistOf(ipo_universe[i].tic) /\ IndexOf(r[k]) < i

\* C4: a target that matches no row makes get_peers raise (IndexError, the
\* call's not-found failure) and return no list; build_peer_mapping raises the
\* same error when any of its targets is missing and returns no mapping.
C4_MissingTargetRaises ==
    /\ (peer_call.op = "get_peers" /\ ~InUniverse(CallTarget))
        => peer_call.out.raised = "IndexError" /\ peer_call.out.value = <<>>
    /\ (/\ peer_call.op = "build_peer_mapping"
        /\ \E k \in DOMAIN peer_call.targets : ~InUniverse(peer_call.targets[k]))
        => peer_call.out.raised = "IndexError" /\ peer_call.out.value = <<>>

\* build_peer_mapping called with a present target followed by a missing one.
C4_Witness ==
    /\ peer_call.op = "build_peer_mapping"
    /\ Len(peer_call.targets) = 2
    /\ InUniverse(peer_call.targets[1])
    /\ ~InUniverse(peer_call.targets[2])
    /\ peer_call.out.raised = "IndexError"

-----------------------------------------------------------------------------
\* Properties of the walk-forward forecaster.

\* rolling_forecast has built its aligned frame.
Aligned == pc \in {"loop", "ValueError", "done"}

\* The 1-based rows of data that are the 0-based positions a..b-1.
RowsAt(a, b) == [i \in 1..(b - a) |-> data[a + i]]

\* The loop step that produced the k-th prediction.
StepOf(k) == window_size + k - 1

\* C2: the fit behind the forecast of step t rests on the window_size rows at
\* the positions t - window_size .. t - 1 of the aligned frame, on those only,
\* and on no row at position t or later.
C2_FitIsCausal ==
    Aligned =>
        \A k \in DOMAIN predictions :
            LET fit == predictions[k].fit
                window == RowsAt(StepOf(k) - window_size, StepOf(k))
            IN  /\ Len(fit.index) = window_size
                /\ fit.index = [i \in DOMAIN window |-> window[i].date]
                /\ fit.y = [i \in DOMAIN window |-> window[i].Actual_RV]
                /\ \A i \in DOMAIN fit.X :
                    /\ fit.X[i][Len(fit.X[i]) - 1] = window[i].Lag_RV
                    /\ fit.X[i][Len(fit.X[i])] = window[i].Peer_Prior
                /\ \A i \in DOMAIN fit.index : fit.index[i] < data[StepOf(k) + 1].date

\* A finished run of two steps, whose windows overlap.
C2_Witness ==
    /\ pc = "done"
    /\ window_size = 2
    /\ Len(predictions) >= 2

\* C3: a call on fewer than window_size + 1 aligned rows fails and never
\* returns (so no returned frame is empty), and a call on exactly
\* window_size + 1 aligned rows returns one record.
C3_WindowLengthContract ==
    /\ pc = "done" => Len(data) >= window_size + 1 /\ Len(results) >= 1
    /\ (pc \in {"ValueError", "done"} /\ Len(data) = window_size + 1)
        => pc = "done" /\ Len(results) = 1

\* C7: a returned frame has Len(data) - window_size records, the k-th carrying
\* the index label and the actual value of the aligned row at position
\* window_size + k and the forecast of that step; an appended record never
\* changes.
C7_OutputShape ==
    pc = "done" =>
        /\ Len(results) = Len(data) - window_size
        /\ \A k \in DOMAIN results :
            /\ results[k].date = data[window_size + k].date
            /\ results[k].Actual = data[window_size + k].Actual_RV
            /\ results[k].Forecast = predictions[k]
            /\ results[k].Forecast.x =
                <<1, data[window_size + k].Lag_RV, data[window_size + k].Peer_Prior>>

\* C10: every row of the frame handed to rolling_forecast, and every row of
\* the aligned frame built from it, pairs its day with the peer aggregate of
\* the position before that day's position in the peer series, which is an
\* earlier day; the synthetic frame has no row for the first day, the one the
\* circular shift fills with the last value.
PeerOfPreviousPosition(row) ==
    \E i \in DOMAIN peer_avg :
        /\ i >= 2
        /\ peer_avg[i].date = row.date
        /\ peer_avg[i - 1].date < row.date
        /\ row.Peer_Prior = peer_avg[i - 1].val

-----------------------------------------------------------------------------
\* Properties of the skill evaluator.

Evaluated == metrics.raised \notin {"pending", "idle"}

\* C6: with a zero baseline error the returned skill score is NaN, whatever
\* the model error.
C6_ZeroBaselineIsNaN ==
    (metrics.raised = "none" /\ metrics.naive_rmse.sse = 0)
        => metrics.skill_score.kind = "nan"

\* C9: for every non-empty frame the baseline is defined at every position -
\* the previous actual value, and at the first position the nearest value
\* after it - and the baseline error is its RMSE against the actual values.
C9_BaselineDefined ==
    (Evaluated /\ Len(results_df) >= 1) =>
        /\ metrics.raised = "none"
        /\ Len(naive_forecast) = Len(results_df)
        /\ \A i \in DOMAIN naive_forecast :
            /\ naive_forecast[i] # NaN
            /\ i >= 2 => naive_forecast[i] = results_df[i - 1].Actual
        /\ metrics.naive_rmse = RootMse(ActualOf(results_df), naive_forecast)

====
